---------------------------- MODULE Spec2Model ----------------------------
(***************************************************************************)
(* SpringerMetadata.identify (src/__init__.py): the lookup-and-extract     *)
(* routine of the Springer metadata source plugin.                         *)
(*                                                                         *)
(* Conventions of the model                                                *)
(*   - a Python str that the code takes apart (strip, split, replace,      *)
(*     "in", strptime) is a sequence of symbols; a symbol is a word, a     *)
(*     blank " " or a comma ",".  An ISBN, which the code only tests for   *)
(*     emptiness and copies, is a TLA+ string.                             *)
(*   - a Python value that may be None is a sequence of length 0 (None)    *)
(*     or 1 (the value); an xpath result is the list of matched elements.  *)
(*   - a dict is a function on the set of its keys.                        *)
(***************************************************************************)
EXTENDS Integers, Sequences, FiniteSets, TLC

VARIABLES
    site,          \* what the server holds at the book URLs: status and body
    budget,        \* calls the host application still makes
    prev,          \* summary of the call that returned last (None: none yet)
    pc,            \* position of the running call
    args,          \* the arguments as the caller passed them
    title,         \* parameter title, then the local of line 73
    authors,       \* parameter authors, then the local of lines 82/84
    isbn,          \* local isbn
    requests,      \* URLs handed to urlopen by this call, with the timeout
    html,          \* local html: the bytes read
    bib_items,     \* local bib_items
    idx,           \* position of the running for loop in bib_items
    meta,          \* local meta: the Raw Field Map
    fields,        \* locals authors_str, doi, publisher, pubdate
    topics,        \* local topics
    comments,      \* local comments
    exc,           \* the exception in flight or handled
    trail,         \* the steps the call has run
    log,           \* lines written to the log argument
    puts,          \* records handed to result_queue.put
    sink           \* records result_queue holds

vars == << site, budget, prev, pc, args, title, authors, isbn, requests,
           html, bib_items, idx, meta, fields, topics, comments, exc, trail,
           log, puts, sink >>

(***************************************************************************)
(* Bounds of the model.                                                    *)
(***************************************************************************)
MaxItems == 2
MaxCalls == 2

(***************************************************************************)
(* Python values.                                                          *)
(***************************************************************************)
None == << >>
Some(v) == << v >>
Truthy(s) == s # << >>

SP == " "
COMMA == ","

(***************************************************************************)
(* str methods on symbol sequences.                                        *)
(***************************************************************************)
RECURSIVE LStrip(_)
LStrip(s) == IF s # << >> /\ Head(s) = SP THEN LStrip(Tail(s)) ELSE s

RECURSIVE RStrip(_)
RStrip(s) ==
    IF s # << >> /\ s[Len(s)] = SP THEN RStrip(SubSeq(s, 1, Len(s) - 1)) ELSE s

Strip(s) == RStrip(LStrip(s))

Contains(s, sym) == \E i \in 1..Len(s) : s[i] = sym

Remove(s, sym) == SelectSeq(s, LAMBDA t : t # sym)

RECURSIVE Split(_, _)
Split(s, sep) ==
    IF ~Contains(s, sep) THEN << s >>
    ELSE LET i == CHOOSE k \in 1..Len(s) :
                      s[k] = sep /\ \A j \in 1..(k - 1) : s[j] # sep
         IN  << SubSeq(s, 1, i - 1) >> \o Split(SubSeq(s, i + 1, Len(s)), sep)

RECURSIVE Join(_, _)
Join(parts, sep) ==
    IF parts = << >> THEN << >>
    ELSE IF Len(parts) = 1 THEN parts[1]
    ELSE parts[1] \o sep \o Join(Tail(parts), sep)

StripAll(parts) == [i \in 1..Len(parts) |-> Strip(parts[i])]

(***************************************************************************)
(* dict methods.                                                           *)
(***************************************************************************)
EmptyDict == << >>
Get(d, k, default) == IF k \in DOMAIN d THEN d[k] ELSE default
Put(d, k, v) == [x \in (DOMAIN d) \cup {k} |-> IF x = k THEN v ELSE d[x]]

(***************************************************************************)
(* The pages.  An item of the bibliographic list is what the four xpath    *)
(* queries of lines 61, 62, 69 and 118 find in it: the bold label spans    *)
(* (each with its .text, which is None when the span opens with a child    *)
(* element), the value spans (each with its string() value), the           *)
(* publication-date spans and the links.                                   *)
(***************************************************************************)
Span(s) == [text |-> Some(s)]
BareSpan == [text |-> None]
Val(s) == [string |-> s]
Item(l, v, d, a) == [label |-> l, value |-> v, date |-> d, links |-> a]

BookTitle == << "Book", SP, "Title" >>
BookSubtitle == << "Book", SP, "Subtitle" >>
Editors == << "Editors" >>
DOI == << "DOI" >>
Publisher == << "Publisher" >>
EBookISBN == << "eBook", SP, "ISBN" >>
SoftcoverISBN == << "Softcover", SP, "ISBN" >>
Topics == << "Topics" >>
DateSuffix == << SP, "Date" >>
Published == "Published:"

ItemSet ==
    { Item(<< Span(<< SP >> \o BookTitle \o << SP >>) >>,
           << Val(<< SP, "Foo", SP >>) >>, << >>, << >>),
      Item(<< Span(BookSubtitle) >>, << Val(<< "Bar" >>) >>, << >>, << >>),
      Item(<< Span(Editors) >>,
           << Val(<< SP, "Jane", SP, "Doe", COMMA, SP, "John", SP, "Smith" >>) >>,
           << >>, << >>),
      Item(<< Span(Editors) >>, << Val(<< "Jane", SP, "Doe", SP >>) >>,
           << >>, << >>),
      Item(<< Span(DOI) >>, << Val(<< "10.1007/1" >>) >>, << >>, << >>),
      Item(<< Span(EBookISBN) >>, << Val(<< "978-1" >>) >>,
           << Span(<< Published, SP, "30", SP, "August", SP, "2025" >>) >>, << >>),
      Item(<< Span(EBookISBN) >>, << Val(<< "978-1" >>) >>,
           << Span(<< Published, SP >>) >>, << >>),
      Item(<< Span(EBookISBN) >>, << Val(<< "978-1" >>) >>,
           << Span(<< "31", SP, "February", SP, "2025" >>) >>, << >>),
      Item(<< Span(EBookISBN) >>, << Val(<< "978-1" >>) >>, << BareSpan >>, << >>),
      Item(<< Span(SoftcoverISBN) >>, << Val(<< "978-2" >>) >>,
           << Span(<< Published, SP, "August", SP, SP, "2025" >>) >>, << >>),
      Item(<< Span(SoftcoverISBN) >>, << >>, << Span(<< "2025" >>) >>, << >>),
      Item(<< Span(SoftcoverISBN) >>, << Val(<< "978-2" >>) >>,
           << Span(<< "in", SP, "press" >>) >>, << >>),
      Item(<< Span(Topics) >>, << Val(<< SP >>) >>, << >>,
           << Span(<< SP, "Math" >>), Span(<< "Physics" >>) >>),
      Item(<< Span(Topics) >>, << Val(<< "Math" >>) >>, << >>,
           << Span(<< "Math" >>), BareSpan >>),
      Item(<< >>, << Val(<< "Foo" >>) >>, << >>, << >>),
      Item(<< BareSpan >>, << Val(<< "Foo" >>) >>, << >>, << >>) }

RECURSIVE SeqsUpTo(_, _)
SeqsUpTo(S, n) ==
    IF n = 0 THEN { << >> }
    ELSE LET shorter == SeqsUpTo(S, n - 1)
         IN  shorter \cup { Append(q, x) : q \in shorter, x \in S }

(* The 'About this book' sections of the page, each with the content      *)
(* containers found in it.                                                 *)
AboutSet == { << >>, << << >> >>, << << << "About", SP, "Foo" >> >> >> }

ItemLists(n) == SeqsUpTo(ItemSet, n)

(* A document: the 'Bibliographic Information' sections (each the list of *)
(* its items) and the 'About this book' sections.                         *)
Docs(n) ==
    { [bib |-> b, about |-> a] :
        b \in { << >> } \cup { << l >> : l \in ItemLists(n) }, a \in AboutSet }

(* What the server holds: the status it answers with and the body, which  *)
(* is no document (zero bytes) or one.                                     *)
Sites(n) ==
    { [status |-> 200, body |-> << d >>] : d \in Docs(n) }
      \cup { [status |-> 200, body |-> << >>] }
      \cup { [status |-> c, body |-> << >>] : c \in {404, 500} }

(***************************************************************************)
(* The arguments of a call.                                                *)
(***************************************************************************)
IdentifierSet ==
    { None, Some(EmptyDict),
      Some([k \in {"doi"} |-> "10.1007/1"]),
      Some([k \in {"isbn"} |-> ""]),
      Some([k \in {"isbn"} |-> "9781"]),
      Some([k \in {"isbn", "doi"} |-> IF k = "isbn" THEN "9782" ELSE "10.1007/1"]) }

Arg(t, a, ab, to, ids) ==
    [title |-> t, authors |-> a, abort |-> ab, timeout |-> to, identifiers |-> ids]

HintSet ==
    { << None, None, FALSE, 30 >>,
      << Some(<< "Hint" >>), None, TRUE, 30 >>,
      << None, Some(<< << "Ann" >> >>), FALSE, 5 >>,
      << Some(<< "Hint" >>), Some(<< << "Ann" >> >>), TRUE, 5 >> }

ArgSet == { Arg(h[1], h[2], h[3], h[4], ids) : h \in HintSet, ids \in IdentifierSet }

(***************************************************************************)
(* Exceptions: the class raised and the source line raising it.  Handler  *)
(* is the pass through the two try statements: the inner one (lines 48 to *)
(* 53) covers the urlopen block and catches HTTPError, the outer one      *)
(* (lines 46 to 140) covers lines 47 to 137 and catches Exception.        *)
(***************************************************************************)
Exc(c, l, m) == [cls |-> c, line |-> l, msg |-> m]

Bases ==
    [c \in {"HTTPError", "URLError", "XMLSyntaxError", "AttributeError", "Full"} |->
        CASE c = "HTTPError" -> {"HTTPError", "URLError", "OSError", "Exception"}
          [] c = "URLError" -> {"URLError", "OSError", "Exception"}
          [] OTHER -> {c, "Exception"}]

IsInstance(e, c) == c \in Bases[e.cls]

HandlerCatchAllOff(e) ==
    IF e.line \in 49..50 /\ IsInstance(e, "HTTPError") THEN "except_http"
    ELSE IF e.line \in 47..137 /\ IsInstance(e, "OSError") THEN "except"
    ELSE "raised"

Handler(e) ==
    IF e.line \in 49..50 /\ IsInstance(e, "HTTPError") THEN "except_http"
    ELSE IF e.line \in 47..137 /\ IsInstance(e, "Exception") THEN "except"
    ELSE "raised"

(***************************************************************************)
(* Lines 34 to 45: identifier gating and the URL.                          *)
(***************************************************************************)
GetIsbn(ids) ==
    IF ids # None /\ ids[1] # EmptyDict /\ "isbn" \in DOMAIN ids[1]
    THEN Some(ids[1]["isbn"])
    ELSE None

NotIsbnNoneOnly(i) == i = None

NotIsbn(i) == i = None \/ i[1] = ""

Url(i) == << "https://link.springer.com/book/", i >>

LogIsbnRequired == << "Springer-Plugin benoetigt ISBN." >>
LogHttpError(code) == << "Fehler beim Abrufen der Seite: ", ToString(code) >>
LogError(e) == << "Fehler: ", e.msg >>
LogEditors(editors) == << "Editors: " >> \o editors
LogAuthors(authors_str) == << "Authors: " >> \o authors_str

(***************************************************************************)
(* Lines 60 to 71: one pass of the first loop over bib_items.  The result *)
(* is the exception raised (None when none) and the Raw Field Map.        *)
(***************************************************************************)
TruthyText(o) == o # None /\ o[1] # << >>

LabelText(item) ==
    IF item.label # << >> THEN Some(Strip(item.label[1].text[1])) ELSE None

ValueText(item) ==
    IF item.value # << >> THEN Some(Strip(item.value[1].string)) ELSE None

DateText(span) == Strip(Remove(span.text[1], Published))

ExtractItem(m, item) ==
    IF item.label # << >> /\ item.label[1].text = None
    THEN [exc |-> Some(Exc("AttributeError", 63, "'NoneType' object has no attribute 'strip'")),
          meta |-> m]
    ELSE LET label_text == LabelText(item)
             value_text == ValueText(item)
             m1 == IF TruthyText(label_text) /\ TruthyText(value_text)
                   THEN Put(m, label_text[1], value_text[1])
                   ELSE m
         IN  IF TruthyText(label_text) /\ Contains(label_text[1], "ISBN")
                /\ item.date # << >>
             THEN IF item.date[1].text = None
                  THEN [exc |-> Some(Exc("AttributeError", 71,
                                         "'NoneType' object has no attribute 'replace'")),
                        meta |-> m1]
                  ELSE [exc |-> None,
                        meta |-> Put(m1, label_text[1] \o DateSuffix,
                                     DateText(item.date[1]))]
             ELSE [exc |-> None, meta |-> m1]

(***************************************************************************)
(* Lines 73 to 109: field derivation.                                      *)
(***************************************************************************)
TitleDefaultEnglish == << "Unknown" >>

TitleDefault == << "Unbekannt" >>

TitleFromHint(m) ==
    LET t == Get(m, BookTitle, IF title # None THEN title[1] ELSE TitleDefault)
        subtitle == Get(m, BookSubtitle, << >>)
    IN  IF Truthy(subtitle) THEN t \o << ":", SP >> \o subtitle ELSE t

TitleNoSeparator(m) ==
    LET t == Get(m, BookTitle, TitleDefault)
        subtitle == Get(m, BookSubtitle, << >>)
    IN  IF Truthy(subtitle) THEN t \o << SP >> \o subtitle ELSE t

Title(m) ==
    LET t == Get(m, BookTitle, TitleDefault)
        subtitle == Get(m, BookSubtitle, << >>)
    IN  IF Truthy(subtitle) THEN t \o << ":", SP >> \o subtitle ELSE t

AuthorsUntrimmed(editors) ==
    IF Contains(editors, COMMA) THEN Split(editors, COMMA)
    ELSE IF Truthy(editors) THEN << Strip(editors) >> ELSE << >>

Authors(editors) ==
    IF Contains(editors, COMMA) THEN StripAll(Split(editors, COMMA))
    ELSE IF Truthy(editors) THEN << Strip(editors) >> ELSE << >>

AuthorsStr(names) == Join(names, << COMMA, SP >>)

PublisherDefault == << "Springer" >>

PubdateStrSoftcoverFirst(m) ==
    LET s == Get(m, SoftcoverISBN \o DateSuffix, << >>)
    IN  IF Truthy(s) THEN s ELSE Get(m, EBookISBN \o DateSuffix, << >>)

PubdateStr(m) ==
    LET e == Get(m, EBookISBN \o DateSuffix, << >>)
    IN  IF Truthy(e) THEN e ELSE Get(m, SoftcoverISBN \o DateSuffix, << >>)

(***************************************************************************)
(* Lines 97 to 109: datetime.strptime with '%d %B %Y', then '%B %Y', then *)
(* '%Y'.  A blank of the format matches one or more blanks, every         *)
(* directive one word, and the whole string has to be consumed; the date  *)
(* is then built, which fails for a day the month does not have.  The     *)
(* result is None where strptime raises ValueError.                       *)
(***************************************************************************)
DayNum == ("30" :> 30) @@ ("31" :> 31)
MonthNum == ("August" :> 8) @@ ("February" :> 2)
YearNum == ("2025" :> 2025)

Directive(d) == CASE d = "d" -> DayNum [] d = "B" -> MonthNum [] d = "Y" -> YearNum

IsLeap(y) == (y % 4 = 0 /\ y % 100 # 0) \/ y % 400 = 0

DaysInMonth(m, y) ==
    IF m = 2 THEN (IF IsLeap(y) THEN 29 ELSE 28)
    ELSE IF m \in {4, 6, 9, 11} THEN 30 ELSE 31

Words(s) == SelectSeq(Split(s, SP), LAMBDA w : w # << >>)

Strptime(s, fmt) ==
    LET w == Words(s)
        matches == /\ s = Strip(s)
                   /\ Len(w) = Len(fmt)
                   /\ \A i \in 1..Len(fmt) :
                        Len(w[i]) = 1 /\ w[i][1] \in DOMAIN Directive(fmt[i])
        Field(d, default) ==
            IF \E i \in 1..Len(fmt) : fmt[i] = d
            THEN Directive(d)[w[CHOOSE i \in 1..Len(fmt) : fmt[i] = d][1]]
            ELSE default
    IN  IF ~matches THEN None
        ELSE LET y == Field("Y", 1900)
                 m == Field("B", 1)
                 d == Field("d", 1)
             IN  IF d <= DaysInMonth(m, y)
                 THEN Some([year |-> y, month |-> m, day |-> d])
                 ELSE None

DateFormats == << << "d", "B", "Y" >>, << "B", "Y" >>, << "Y" >> >>

RECURSIVE TryFormats(_, _)
TryFormats(s, fmts) ==
    IF fmts = << >> THEN None
    ELSE IF Strptime(s, Head(fmts)) # None THEN Strptime(s, Head(fmts))
    ELSE TryFormats(s, Tail(fmts))

ParseDate(s) == IF Truthy(s) THEN TryFormats(s, DateFormats) ELSE None

(***************************************************************************)
(* Lines 114 to 127: topics and description.                               *)
(***************************************************************************)
LinkText(a) == Strip(a.text[1])

ToString_html(div) == << "<div>" >> \o div \o << "</div>" >>

Comments(doc) ==
    IF doc.about # << >> /\ doc.about[1] # << >>
    THEN ToString_html(doc.about[1][1])
    ELSE << >>

(***************************************************************************)
(* Lines 129 to 136: the Metadata object.                                  *)
(***************************************************************************)
Languages == << "de" >>

Metadata(t, authors_str, f, c, i, tags) ==
    [title |-> t, authors |-> authors_str, publisher |-> f.publisher,
     pubdate |-> f.pubdate, languages |-> Languages, comments |-> c, isbn |-> i,
     identifiers |-> [doi |-> f.doi, isbn |-> i], tags |-> tags]

(***************************************************************************)
(* The state between calls.                                                *)
(***************************************************************************)
NoArgs == [title |-> None, authors |-> None, abort |-> FALSE, timeout |-> 30,
           identifiers |-> None]
NoFields == [authors_str |-> << >>, doi |-> << >>, publisher |-> << >>,
             pubdate_str |-> << >>, pubdate |-> None]

Fresh ==
    /\ pc = "idle"
    /\ args = NoArgs
    /\ title = None
    /\ authors = None
    /\ isbn = None
    /\ requests = << >>
    /\ html = None
    /\ bib_items = << >>
    /\ idx = 1
    /\ meta = EmptyDict
    /\ fields = NoFields
    /\ topics = << >>
    /\ comments = << >>
    /\ exc = None
    /\ trail = << >>
    /\ log = << >>
    /\ puts = << >>
    /\ sink = << >>

SeqSites ==
    { [status |-> 200, body |-> << [bib |-> b, about |-> << << << "About" >> >> >>] >>] :
        b \in { << >> } \cup { << l >> : l \in ItemLists(1) } }
      \cup { [status |-> 404, body |-> << >>] }

Init ==
    /\ site \in Sites(MaxItems)
    /\ budget = 1
    /\ prev = None
    /\ Fresh

InitSeq ==
    /\ site \in SeqSites
    /\ budget = MaxCalls
    /\ prev = None
    /\ Fresh

(***************************************************************************)
(* The call, step by step.                                                 *)
(***************************************************************************)
env == << site, budget, prev >>
locals == << title, authors, isbn, html, bib_items, idx, meta, fields, topics,
             comments >>
outputs == << requests, log, puts, sink >>

Ran(step) == trail' = Append(trail, step)

(* The host application calls identify (line 33). *)
Call ==
    /\ pc = "idle"
    /\ budget > 0
    /\ \E a \in ArgSet :
         /\ args' = a
         /\ title' = a.title
         /\ authors' = a.authors
    /\ pc' = "gate"
    /\ UNCHANGED << env, isbn, html, bib_items, idx, meta, fields, topics,
                    comments, outputs, exc, trail >>

(* Lines 34 to 45. *)
Gate ==
    /\ pc = "gate"
    /\ LET i == GetIsbn(args.identifiers)
       IN  /\ isbn' = i
           /\ IF NotIsbn(i)
              THEN /\ log' = Append(log, LogIsbnRequired)
                   /\ pc' = "done"
              ELSE IF i # None /\ i[1] # ""
              THEN /\ log' = log
                   /\ pc' = "fetch"
              ELSE /\ log' = Append(log, << "Nur ISBN-Suche ist bisher implementiert." >>)
                   /\ pc' = "done"
    /\ Ran("gate")
    /\ UNCHANGED << env, args, title, authors, html, bib_items, idx, meta, fields,
                    topics, comments, requests, puts, sink, exc >>

(* Lines 47 to 50: the request goes out; the server answers with its      *)
(* status (urlopen raises HTTPError for a status outside 2xx), or the     *)
(* connection fails or times out (URLError).                               *)
Fetch ==
    /\ pc = "fetch"
    /\ requests' = Append(requests, [url |-> Url(isbn[1]), timeout |-> args.timeout])
    /\ \/ /\ site.status \in 200..299
          /\ html' = Some(site.body)
          /\ exc' = exc
          /\ pc' = "parse"
       \/ /\ site.status \notin 200..299
          /\ LET e == [cls |-> "HTTPError", line |-> 49, msg |-> "HTTP Error",
                       code |-> site.status]
             IN  exc' = Some(e) /\ pc' = Handler(e)
          /\ html' = html
       \/ /\ LET e == Exc("URLError", 49, "<urlopen error timed out>")
             IN  exc' = Some(e) /\ pc' = Handler(e)
          /\ html' = html
    /\ Ran("fetch")
    /\ UNCHANGED << env, args, title, authors, isbn, bib_items, idx, meta, fields,
                    topics, comments, log, puts, sink >>

HttpErrorRetry ==
    /\ pc = "except_http"
    /\ log' = Append(log, LogHttpError(exc[1].code))
    /\ pc' = IF Len(requests) < 2 THEN "fetch" ELSE "done"
    /\ Ran("except_http")
    /\ UNCHANGED << env, args, locals, requests, puts, sink, exc >>

(* Lines 51 to 53. *)
HttpError ==
    /\ pc = "except_http"
    /\ log' = Append(log, LogHttpError(exc[1].code))
    /\ pc' = "done"
    /\ Ran("except_http")
    /\ UNCHANGED << env, args, locals, requests, puts, sink, exc >>

(* Lines 54 to 59: zero bytes give no tree (fromstring raises, and a      *)
(* parser that answered None would make line 57 raise: an exception       *)
(* within the outer try either way); else the tree, the first             *)
(* bibliographic section's items and the empty Raw Field Map.             *)
Parse ==
    /\ pc = "parse"
    /\ IF html[1] = << >>
       THEN /\ LET e == Exc("XMLSyntaxError", 55, "Document is empty")
               IN  exc' = Some(e) /\ pc' = Handler(e)
            /\ UNCHANGED << bib_items, meta >>
       ELSE LET tree == html[1][1]
                items == IF tree.bib # << >> THEN tree.bib[1] ELSE << >>
            IN  /\ bib_items' = items
                /\ meta' = EmptyDict
                /\ exc' = exc
                /\ pc' = IF items = << >> THEN "derive" ELSE "extract"
    /\ Ran("parse")
    /\ UNCHANGED << env, args, title, authors, isbn, html, idx, fields, topics,
                    comments, outputs >>

(* Lines 60 to 71: one pass of the loop. *)
Extract ==
    /\ pc = "extract"
    /\ LET r == ExtractItem(meta, bib_items[idx])
       IN  /\ meta' = r.meta
           /\ IF r.exc # None
              THEN exc' = r.exc /\ pc' = Handler(r.exc[1]) /\ idx' = idx
              ELSE /\ exc' = exc
                   /\ IF idx < Len(bib_items)
                      THEN idx' = idx + 1 /\ pc' = pc
                      ELSE idx' = 1 /\ pc' = "derive"
    /\ Ran("extract")
    /\ UNCHANGED << env, args, title, authors, isbn, html, bib_items, fields,
                    topics, comments, outputs >>

(* Lines 73 to 113. *)
Derive ==
    /\ pc = "derive"
    /\ LET editors == Get(meta, Editors, << >>)
           names == Authors(editors)
           pubdate_str == PubdateStr(meta)
       IN  /\ title' = Some(Title(meta))
           /\ authors' = Some(names)
           /\ fields' = [authors_str |-> AuthorsStr(names),
                         doi |-> Get(meta, DOI, << >>),
                         publisher |-> Get(meta, Publisher, PublisherDefault),
                         pubdate_str |-> pubdate_str,
                         pubdate |-> ParseDate(pubdate_str)]
           /\ log' = log \o << LogEditors(editors), LogAuthors(AuthorsStr(names)) >>
    /\ topics' = << >>
    /\ pc' = IF bib_items = << >> THEN "about" ELSE "topics"
    /\ Ran("derive")
    /\ UNCHANGED << env, args, isbn, html, bib_items, idx, meta, comments,
                    requests, puts, sink, exc >>

(* Lines 114 to 120: one pass of the second loop. *)
TopicsPass ==
    /\ pc = "topics"
    /\ LET item == bib_items[idx]
           raises == \/ item.label # << >> /\ item.label[1].text = None
                     \/ /\ LabelText(item) = Some(Topics)
                        /\ \E k \in 1..Len(item.links) : item.links[k].text = None
           e == Exc("AttributeError", IF item.label[1].text = None THEN 116 ELSE 119,
                    "'NoneType' object has no attribute 'strip'")
       IN  IF raises
           THEN exc' = Some(e) /\ pc' = Handler(e) /\ UNCHANGED << topics, idx >>
           ELSE /\ topics' = IF LabelText(item) = Some(Topics)
                             THEN [k \in 1..Len(item.links) |-> LinkText(item.links[k])]
                             ELSE topics
                /\ exc' = exc
                /\ IF idx < Len(bib_items)
                   THEN idx' = idx + 1 /\ pc' = pc
                   ELSE idx' = 1 /\ pc' = "about"
    /\ Ran("topics")
    /\ UNCHANGED << env, args, title, authors, isbn, html, bib_items, meta, fields,
                    comments, outputs >>

(* Lines 122 to 127. *)
About ==
    /\ pc = "about"
    /\ comments' = Comments(html[1][1])
    /\ pc' = "emit"
    /\ Ran("about")
    /\ UNCHANGED << env, args, title, authors, isbn, html, bib_items, idx, meta,
                    fields, topics, outputs, exc >>

(* Lines 129 to 137: the record is built and handed to result_queue.put,  *)
(* which stores it or raises.                                              *)
Emit ==
    /\ pc = "emit"
    /\ LET mi == Metadata(title[1], fields.authors_str, fields, comments, isbn[1], topics)
       IN  /\ puts' = Append(puts, mi)
           /\ \/ /\ sink' = Append(sink, mi)
                 /\ exc' = exc
                 /\ pc' = "done"
              \/ /\ sink' = sink
                 /\ LET e == Exc("Full", 137, "")
                    IN  exc' = Some(e) /\ pc' = Handler(e)
    /\ Ran("emit")
    /\ UNCHANGED << env, args, locals, requests, log >>

ExceptWithRecord ==
    /\ pc = "except"
    /\ log' = Append(log, LogError(exc[1]))
    /\ sink' = Append(sink, [title |-> << "Fehler" >>])
    /\ pc' = "done"
    /\ Ran("except")
    /\ UNCHANGED << env, args, locals, requests, puts, exc >>

(* Lines 138 to 140. *)
Except ==
    /\ pc = "except"
    /\ log' = Append(log, LogError(exc[1]))
    /\ pc' = "done"
    /\ Ran("except")
    /\ UNCHANGED << env, args, locals, requests, puts, sink, exc >>

(* The call is over: it returned, or an exception left it. *)
Return ==
    /\ pc \in {"done", "raised"}
    /\ prev' = Some([args |-> args, page |-> html, puts |-> puts])
    /\ budget' = budget - 1
    /\ pc' = "idle"
    /\ args' = NoArgs
    /\ title' = None
    /\ authors' = None
    /\ isbn' = None
    /\ requests' = << >>
    /\ html' = None
    /\ bib_items' = << >>
    /\ idx' = 1
    /\ meta' = EmptyDict
    /\ fields' = NoFields
    /\ topics' = << >>
    /\ comments' = << >>
    /\ exc' = None
    /\ trail' = << >>
    /\ log' = << >>
    /\ puts' = << >>
    /\ sink' = << >>
    /\ site' = site

Next ==
    \/ Call
    \/ Gate
    \/ Fetch
    \/ HttpError
    \/ Parse
    \/ Extract
    \/ Derive
    \/ TopicsPass
    \/ About
    \/ Emit
    \/ Except
    \/ Return

Spec == Init /\ [][Next]_vars

SeqSpec == InitSeq /\ [][Next]_vars

(* A call, once made, runs on: the routine is synchronous and every step *)
(* of it completes (the fetch is bounded by the timeout).                 *)
Step ==
    Gate \/ Fetch \/ HttpError \/ Parse \/ Extract \/ Derive \/ TopicsPass
      \/ About \/ Emit \/ Except

FairSeqSpec == InitSeq /\ [][Next]_vars /\ WF_vars(Step)

(***************************************************************************)
(* Properties.                                                             *)
(***************************************************************************)
Count(step) == Cardinality({ i \in 1..Len(trail) : trail[i] = step })
After(step) == Count(step) > 0
Last(q) == q[Len(q)]

(* The identifiers argument is absent, empty, without an 'isbn' entry, or *)
(* holds an empty 'isbn'.                                                  *)
IsbnMissing ==
    \/ args.identifiers = None
    \/ "isbn" \notin DOMAIN args.identifiers[1]
    \/ args.identifiers[1]["isbn"] = ""

InputIsbn == args.identifiers[1]["isbn"]

Running == pc # "idle"

RecordFields ==
    {"title", "authors", "publisher", "pubdate", "languages", "comments", "isbn",
     "identifiers", "tags"}

(* C1: in every call the sink receives at most one record; it holds one   *)
(* only when gating, fetch, parse, every extraction pass, derivation,     *)
(* topics, description and assembly each ran without a failure, and the   *)
(* record is then the complete one; a call with a missing ISBN or with    *)
(* any exception holds none.                                               *)
C1_AtMostOneOnlyOnSuccess ==
    /\ Len(sink) <= 1
    /\ Len(puts) <= 1
    /\ sink # << >> =>
         /\ pc = "done"
         /\ exc = None
         /\ ~IsbnMissing
         /\ html # None
         /\ \A step \in {"gate", "fetch", "parse", "derive", "about", "emit"} :
              Count(step) = 1
         /\ Count("extract") = Len(bib_items)
         /\ Count("topics") = Len(bib_items)
         /\ ~After("except") /\ ~After("except_http")
         /\ sink = puts
         /\ DOMAIN sink[1] = RecordFields
         /\ sink[1].isbn = InputIsbn
    /\ (Running /\ (IsbnMissing \/ exc # None)) => sink = << >>

C1_Witness ==
    /\ pc = "done"
    /\ Len(sink) = 1
    /\ Len(bib_items) > 1

(* C2: a call whose identifiers hold no ISBN never starts a fetch, pushes *)
(* no record, stays within the gate, ends after logging exactly the fixed *)
(* diagnostic, and does end.                                               *)
C2_NoIsbnNoWork ==
    /\ [](Running /\ IsbnMissing =>
            /\ requests = << >>
            /\ puts = << >>
            /\ sink = << >>
            /\ pc \in {"gate", "done"}
            /\ pc = "done" => log = << << "Springer-Plugin benoetigt ISBN." >> >>)
    /\ ((pc = "gate" /\ IsbnMissing) ~> (pc = "done" /\ IsbnMissing))

C2_Witness ==
    /\ pc = "done"
    /\ args.identifiers # None
    /\ "isbn" \in DOMAIN args.identifiers[1]
    /\ IsbnMissing
    /\ args.title # None
    /\ args.abort

HttpFailed == exc # None /\ exc[1].cls = "HTTPError"

(* C3: after an answer with a status outside 2xx the call pushes nothing, *)
(* has sent exactly one request, runs no parse or extraction step, and    *)
(* ends right after the handler with a log line holding the status code.  *)
C3_HttpErrorIsTerminal ==
    HttpFailed =>
        /\ site.status \notin 200..299
        /\ puts = << >>
        /\ sink = << >>
        /\ Len(requests) = 1
        /\ html = None
        /\ \A step \in {"parse", "extract", "derive", "topics", "about", "emit"} :
             ~After(step)
        /\ pc \in {"except_http", "done"}
        /\ pc = "done" =>
             /\ trail = << "gate", "fetch", "except_http" >>
             /\ \E i \in 1..Len(log) : Contains(log[i], ToString(site.status))

C3_Witness ==
    /\ pc = "done"
    /\ HttpFailed
    /\ site.status = 500

(* C4: no exception leaves the call, whatever the identifiers and         *)
(* wherever a step fails, and a call that ends with an empty sink has     *)
(* written a log line.                                                     *)
C4_NeverRaisesAlwaysLogs ==
    /\ pc # "raised"
    /\ exc # None => pc \in {"except_http", "except", "done"}
    /\ (pc = "done" /\ sink = << >>) => log # << >>

C4_Witness ==
    /\ pc = "done"
    /\ exc # None
    /\ exc[1].line = 137
    /\ sink = << >>

BarePage ==
    /\ html # None
    /\ html[1] # << >>
    /\ html[1][1].bib = << >>
    /\ html[1][1].about = << >>

(* C5: a call with an ISBN that read a page with neither section hands   *)
(* exactly one record to the sink, with the default values and the input  *)
(* ISBN.                                                                   *)
C5_BarePageDefaults ==
    (pc = "done" /\ BarePage) =>
        /\ Len(puts) = 1
        /\ puts[1] = [title |-> << "Unbekannt" >>,
                      authors |-> << >>,
                      publisher |-> << "Springer" >>,
                      pubdate |-> None,
                      languages |-> << "de" >>,
                      comments |-> << >>,
                      isbn |-> InputIsbn,
                      identifiers |-> [doi |-> << >>, isbn |-> InputIsbn],
                      tags |-> << >>]
        /\ exc = None => sink = puts

C5_Witness ==
    /\ pc = "done"
    /\ BarePage
    /\ Len(sink) = 1
    /\ args.title # None

SameLookup ==
    /\ prev # None
    /\ pc = "done"
    /\ GetIsbn(prev[1].args.identifiers) = GetIsbn(args.identifiers)
    /\ prev[1].page = html

(* C6: a call that ends after reading the same page content (or none) for *)
(* the same ISBN as the call before it has handed the same records to the *)
(* sink, whatever the two calls' title, authors, abort and timeout        *)
(* arguments and whatever calls came earlier.                              *)
C6_OutcomeDependsOnIsbnAndPage ==
    SameLookup => puts = prev[1].puts

C6_Witness ==
    /\ SameLookup
    /\ html # None
    /\ Len(puts) = 1
    /\ puts[1].title = << "Unbekannt" >>
    /\ prev[1].args.title # args.title
    /\ prev[1].args.authors # args.authors
    /\ prev[1].args.abort # args.abort
    /\ prev[1].args.timeout # args.timeout

(* C7: once a page with a document has been read, the call ends with one  *)
(* record handed to the sink, whichever structural markers the document   *)
(* lacks: sections, items, label or value spans, date markers, links, or  *)
(* the text of any of them.                                                *)
C7_MissingMarkersStillEmit ==
    (pc = "done" /\ html # None /\ html[1] # << >>) => Len(puts) = 1

(* The 'Editors' field of the Raw Field Map, empty when absent. *)
EditorsField == IF Editors \in DOMAIN meta THEN meta[Editors] ELSE << >>

CommaPositions(s) == { i \in 1..Len(s) : s[i] = COMMA }

(* The k-th of the segments that the commas of s delimit. *)
Segment(s, k) ==
    LET starts == {0} \cup CommaPositions(s)
        ends == CommaPositions(s) \cup {Len(s) + 1}
        from == CHOOSE a \in starts : Cardinality({ x \in starts : x < a }) = k - 1
        to == CHOOSE b \in ends : Cardinality({ x \in ends : x < b }) = k - 1
    IN  SubSeq(s, from + 1, to - 1)

(* t is s without its leading and trailing blanks. *)
IsTrimOf(t, s) ==
    /\ t # << >> => (t[1] # SP /\ t[Len(t)] # SP)
    /\ \E a \in 0..Len(s) :
         /\ a + Len(t) <= Len(s)
         /\ SubSeq(s, a + 1, a + Len(t)) = t
         /\ \A i \in (1..a) \cup ((a + Len(t) + 1)..Len(s)) : s[i] = SP

RECURSIVE CommaSpaceJoined(_)
CommaSpaceJoined(names) ==
    IF names = << >> THEN << >>
    ELSE IF Len(names) = 1 THEN names[1]
    ELSE names[1] \o << ",", " " >> \o CommaSpaceJoined(Tail(names))

JaneDoe == << "Jane", " ", "Doe" >>
JohnSmith == << "John", " ", "Smith" >>

(* C8: after field derivation the author list is, for an 'Editors' field  *)
(* with a comma, its comma-delimited segments, each trimmed; for a        *)
(* non-empty field without a comma, the one trimmed string; for an absent *)
(* or empty field, empty; and the author string, which the record         *)
(* carries, is the ', '-join of that list.                                 *)
C8_AuthorList ==
    After("derive") =>
        LET e == EditorsField
            names == authors[1]
        IN  /\ e = << >> => names = << >>
            /\ (e # << >> /\ CommaPositions(e) = {}) =>
                 (Len(names) = 1 /\ IsTrimOf(names[1], e))
            /\ CommaPositions(e) # {} =>
                 /\ Len(names) = Cardinality(CommaPositions(e)) + 1
                 /\ \A k \in 1..Len(names) : IsTrimOf(names[k], Segment(e, k))
            /\ fields.authors_str = CommaSpaceJoined(names)
            /\ puts # << >> => puts[1].authors = CommaSpaceJoined(names)
            /\ e = JaneDoe \o << ",", " " >> \o JohnSmith =>
                 names = << JaneDoe, JohnSmith >>
            /\ e = JaneDoe => names = << JaneDoe >>

C8_Witness ==
    /\ pc = "done"
    /\ Len(sink) = 1
    /\ EditorsField = JaneDoe \o << ",", " " >> \o JohnSmith
    /\ sink[1].authors = JaneDoe \o << ",", " " >> \o JohnSmith

EBookDate == << "eBook", " ", "ISBN", " ", "Date" >>
SoftcoverDate == << "Softcover", " ", "ISBN", " ", "Date" >>

(* s is the words ws, in order, with one or more blanks between them. *)
BlankSeparated(s, ws) ==
    /\ Remove(s, SP) = ws
    /\ s # << >> => (s[1] # SP /\ s[Len(s)] # SP)
    /\ \A i \in 1..(Len(s) - 1) : s[i] = SP \/ s[i + 1] = SP

ValidDate(y, m, d) ==
    /\ m \in 1..12
    /\ d >= 1
    /\ d <= (CASE m \in {1, 3, 5, 7, 8, 10, 12} -> 31
               [] m \in {4, 6, 9, 11} -> 30
               [] OTHER -> IF y % 4 = 0 /\ (y % 100 # 0 \/ y % 400 = 0) THEN 29 ELSE 28)

(* s reads as the date in one of the forms 'day month year', 'month year' *)
(* and 'year', a missing day or month being the first.                    *)
ReadsAs(s, date) ==
    /\ ValidDate(date.year, date.month, date.day)
    /\ \E y \in DOMAIN YearNum :
         /\ YearNum[y] = date.year
         /\ \/ \E d \in DOMAIN DayNum, m \in DOMAIN MonthNum :
                 /\ BlankSeparated(s, << d, m, y >>)
                 /\ DayNum[d] = date.day /\ MonthNum[m] = date.month
            \/ \E m \in DOMAIN MonthNum :
                 /\ BlankSeparated(s, << m, y >>)
                 /\ date.day = 1 /\ MonthNum[m] = date.month
            \/ /\ BlankSeparated(s, << y >>)
               /\ date.day = 1 /\ date.month = 1

(* s reads as some date. *)
Readable(s) ==
    \E y \in DOMAIN YearNum :
        \/ \E d \in DOMAIN DayNum, m \in DOMAIN MonthNum :
              /\ BlankSeparated(s, << d, m, y >>)
              /\ ValidDate(YearNum[y], MonthNum[m], DayNum[d])
        \/ \E m \in DOMAIN MonthNum : BlankSeparated(s, << m, y >>)
        \/ BlankSeparated(s, << y >>)

(* The date the record gets for the date string s. *)
DateOutcome(s) ==
    /\ fields.pubdate # None => ReadsAs(s, fields.pubdate[1])
    /\ fields.pubdate = None => ~Readable(s)
    /\ s = << >> => fields.pubdate = None
    /\ puts # << >> => puts[1].pubdate = fields.pubdate
    /\ Last(trail) = "derive" => (exc = None /\ pc \in {"topics", "about"})
    /\ (pc = "done" /\ exc = None) => Len(sink) = 1

(* C9 as stated: the date string is the 'eBook ISBN Date' field whenever  *)
(* the Raw Field Map holds that field, else the 'Softcover ISBN Date'     *)
(* field, else empty.                                                      *)
C9_DateStringIfPresent ==
    After("derive") =>
        fields.pubdate_str =
            IF EBookDate \in DOMAIN meta THEN meta[EBookDate]
            ELSE IF SoftcoverDate \in DOMAIN meta THEN meta[SoftcoverDate]
            ELSE << >>

(* C9, amended: the date string is the 'eBook ISBN Date' field when that  *)
(* field is present and not empty, else the 'Softcover ISBN Date' field,  *)
(* else empty; the record's date is the one the string reads as in the    *)
(* first of the three forms that fits, and absent when the string is      *)
(* empty or fits none; derivation raises nothing and the record is still  *)
(* pushed.                                                                 *)
C9_DateStringIfNonEmpty ==
    After("derive") =>
        LET s == IF EBookDate \in DOMAIN meta /\ meta[EBookDate] # << >>
                 THEN meta[EBookDate]
                 ELSE IF SoftcoverDate \in DOMAIN meta THEN meta[SoftcoverDate]
                 ELSE << >>
        IN  /\ fields.pubdate_str = s
            /\ DateOutcome(s)

C9_Witness ==
    /\ pc = "done"
    /\ Len(sink) = 1
    /\ EBookDate \in DOMAIN meta
    /\ meta[EBookDate] = << >>
    /\ SoftcoverDate \in DOMAIN meta
    /\ sink[1].pubdate = << [year |-> 2025, month |-> 8, day |-> 1] >>

(* C10: after field derivation the title is the 'Book Title' field, or    *)
(* "Unbekannt" without one, followed by ": " and the 'Book Subtitle'      *)
(* field when there is one and by nothing when there is none; the record  *)
(* carries that title.                                                     *)
C10_Title ==
    After("derive") =>
        LET base == IF << "Book", " ", "Title" >> \in DOMAIN meta
                    THEN meta[<< "Book", " ", "Title" >>]
                    ELSE << "Unbekannt" >>
            sub == << "Book", " ", "Subtitle" >>
        IN  /\ sub \in DOMAIN meta => title[1] = base \o << ":", " " >> \o meta[sub]
            /\ sub \notin DOMAIN meta => title[1] = base
            /\ puts # << >> => puts[1].title = title[1]
            /\ (base = << "Foo" >> /\ sub \in DOMAIN meta /\ meta[sub] = << "Bar" >>) =>
                 title[1] = << "Foo", ":", " ", "Bar" >>

C10_Witness ==
    /\ pc = "done"
    /\ Len(sink) = 1
    /\ << "Book", " ", "Title" >> \in DOMAIN meta
    /\ << "Book", " ", "Subtitle" >> \in DOMAIN meta
    /\ sink[1].title = << "Foo", ":", " ", "Bar" >>

=============================================================================
